---- MODULE Spec2Model ----
(***************************************************************************)
(* A model of pyqt-sqlalchemy's field-binding and persistence-lifecycle    *)
(* engine: PQSFieldBinder, QLineEditBinder and QDateEditBinder             *)
(* (src/pqs/binder.py, src/pqs/binders_sample.py) and PQSEditUI            *)
(* (src/pqs/editor.py), driven against the User model of                   *)
(* src/test/__main__.py; and of its query side: PQSOperator, PQSQueryUI    *)
(* and PQSTableModel (src/pqs/query.py).                                   *)
(*                                                                         *)
(* The form holds three QLineEdit channels, bound to the attributes email  *)
(* (mandatory, must contain '@'), id (read-only in the form, computed by   *)
(* the database) and number (optional, converted with int()), and, where   *)
(* a specification binds it, a QDateEdit channel bound to birthdate (not   *)
(* after today).                                                           *)
(*                                                                         *)
(* Every handler is one action.  A handler is computed by threading a      *)
(* record "s" (the fields of the objects involved plus the trace of the    *)
(* calls made so far) through operators that carry the names of the        *)
(* methods they are translated from.                                       *)
(*                                                                         *)
(* The SQLAlchemy session and the Qt widgets are external collaborators;   *)
(* they are modelled by what their documented interface does to the one    *)
(* tracked object (session_*, setText).                                    *)
(*                                                                         *)
(* Spec drives the editor (save, commit, validate, refresh, delete and     *)
(* user keystrokes); SpecBinder drives one bound binder through its own    *)
(* public methods (update, reset, update_from_gui, update_to_gui, the      *)
(* enable/disable toggles, the connect methods) and user keystrokes;       *)
(* SpecSetup drives the constructor, bind_form() over several form         *)
(* descriptors, lookup_binders() and the binders property; SpecQuery       *)
(* drives the operator register, do_query() and sort().                    *)
(***************************************************************************)
EXTENDS Integers, Sequences, FiniteSets, TLC

VARIABLES
    attrs,       \* the domain object's attributes            (editor.py _model)
    db,          \* the committed row, as stored in the database
    row,         \* whether the committed row exists
    sstate,      \* sqlalchemy.inspect(model): transient/pending/persistent/deleted/detached
    modified,    \* sqlalchemy.inspect(model).modified
    marked,      \* the object is in the session's to-delete collection, not flushed yet
    text,        \* QLineEdit.text() of each channel
    date,        \* QDateEdit.date() of each date channel
    readOnly,    \* QLineEdit.isReadOnly() of each channel
    style,       \* validity mark of each channel (its style sheet colour)
    autoupdate,  \* PQSFieldBinder._autoupdate
    disabled,    \* PQSFieldBinder._disabled
    connected,   \* signal_autoupdate is connected to _on_autoupdate
    connected_save, \* signal_save is connected to the editor's save
    buttons,     \* visibility of the four action buttons
    label,       \* status label text, as the list of message parts set
    session,     \* PQSEditUI._session: unset, made by the factory, or the one given
    listing,     \* PQSOperator.listing: the registered operator classes, in order
    map_by_name, \* PQSOperator.map_by_name: class name -> operator class
    query,       \* PQSTableModel._query: None, or the query do_query() generated
    results,     \* PQSTableModel._results: None, or the rows of the last success
    sorting,     \* PQSTableModel._sort_column and _sort_order
    issued,      \* the query last handed to the database by refresh(), if any
    sessions,    \* PQSQueryUI._session, PQSTableModel._session, and the factory's count
    form,        \* PQSEditUI._form_ui: the form descriptor bind_form() was given
    binders,     \* PQSEditUI._binders: None, or the list of binders (by attribute name)
    bound,       \* bind_form() has run to its end: events attached
    op,          \* the handler that ran last
    pre,         \* lifecycle status when that handler started
    arg,         \* the binder and the value that handler was called with
    was,         \* the domain object's attributes when that handler started
    ret,         \* what the last update() of that handler returned
    after_bad_edit, \* that handler followed a rejected edit of a PersistentClean object
    hooks,       \* the user hooks that handler invoked, with their arguments
    raised,      \* the exception the handler ended with, or "none"
    log          \* the calls the handler made, in order

vars == <<attrs, db, row, sstate, modified, marked, text, date, readOnly, style,
          autoupdate, disabled, connected, connected_save, buttons, label,
          session, listing, map_by_name, query, results, sorting, issued,
          sessions,
          form, binders, bound, op, pre, arg, was, ret, after_bad_edit, hooks, raised, log>>

----------------------------------------------------------------------------
(* Values: Python's None, str and int are kept apart so that str() and     *)
(* int() are real conversions.                                             *)

NoneV == [t |-> "none", s |-> "", i |-> 0]
StrV(x) == [t |-> "str", s |-> x, i |-> 0]
IntV(n) == [t |-> "int", s |-> "", i |-> n]
DateV(d) == [t |-> "date", s |-> d, i |-> 0]

\* The dates of the model: the birthdate of the persistent test user, the
\* date a QDateEdit shows before any date is set, and the birthdate of the
\* wrong test user, which lies after datetime.date.today().
Dates == {"1995-09-21", "2000-01-01", "2099-12-12"}
AfterToday == {"2099-12-12"}
DefaultDate == "2000-01-01"

\* The texts a user types into a channel.
Texts == {"", "a@b.com", "x@y.com", "not-an-email", "5", "7"}

\* The strings that contain the character '@'.
HasAt(x) == x \in {"a@b.com", "x@y.com"}

\* Python's int(str) on the strings of the model: defined on decimal numerals.
IntOfText == [x \in {"1", "5", "7"} |-> CASE x = "1" -> 1 [] x = "5" -> 5 [] x = "7" -> 7]

\* Python's str(int) on the integers of the model.
TextOfInt == [n \in {1, 5, 7} |-> CASE n = 1 -> "1" [] n = 5 -> "5" [] n = 7 -> "7"]

\* The value the database computes for a missing primary key on INSERT.
AutoId == IntV(1)

\* lookup_binders() walks dir(form_ui), which is sorted by attribute name:
\* emailLineEdit, idLineEdit, numberLineEdit.
Binders == <<"email", "id", "number">>
BinderSet == {Binders[k] : k \in 1..Len(Binders)}

\* The mapped attributes of the User model.
Fields == {"birthdate", "email", "id", "number"}

\* The widget class of the channel an attribute is edited through, which
\* selects the binder class (GUI_BINDERS).
Kind(b) == IF b = "birthdate" THEN "QDateEdit" ELSE "QLineEdit"

ButtonNames == {"save", "validate", "refresh", "delete"}

\* int(v) as used by validate_id and validate_number: result, or failure.
PyInt(v) ==
    CASE v.t = "int" -> [ok |-> TRUE, v |-> v]
      [] v.t = "str" /\ v.s \in DOMAIN IntOfText -> [ok |-> TRUE, v |-> IntV(IntOfText[v.s])]
      [] OTHER -> [ok |-> FALSE, v |-> v]

validate_id(v) == IF v = NoneV THEN [ok |-> TRUE, v |-> NoneV] ELSE PyInt(v)

validate_email(v) ==
    IF v = NoneV THEN [ok |-> FALSE, v |-> v]
    ELSE IF v.t = "str" /\ HasAt(v.s) THEN [ok |-> TRUE, v |-> v]
    ELSE [ok |-> FALSE, v |-> v]

validate_number(v) == IF v = NoneV THEN [ok |-> TRUE, v |-> NoneV] ELSE PyInt(v)

\* birthdate > today: a TypeError for None, a str or an int, a ValueError
\* for a date in the future.
validate_birthdate(v) ==
    IF v.t = "date" /\ v.s \notin AfterToday THEN [ok |-> TRUE, v |-> v]
    ELSE [ok |-> FALSE, v |-> v]

\* setattr(model, name, value) runs the attribute's @validates function.
Validator(name, v) ==
    CASE name = "id" -> validate_id(v)
      [] name = "email" -> validate_email(v)
      [] name = "number" -> validate_number(v)
      [] name = "birthdate" -> validate_birthdate(v)

----------------------------------------------------------------------------
(* The lifecycle status, derived from the session's knowledge of the       *)
(* object.                                                                 *)

Status(st, mod) ==
    CASE st = "transient" -> "Transient"
      [] st = "pending" -> "Pending"
      [] st = "persistent" -> IF mod THEN "PersistentDirty" ELSE "PersistentClean"
      [] st = "deleted" -> "Deleted"
      [] st = "detached" -> "Detached"

Log(s, e, b) == [s EXCEPT !.log = Append(@, [e |-> e, b |-> b])]

----------------------------------------------------------------------------
(* PQSFieldBinder: edit-ability and autoupdate toggles.                    *)

override_disable_edit(s, b) == [s EXCEPT !.readOnly[b] = TRUE]

override_enable_edit(s, b) == [s EXCEPT !.readOnly[b] = FALSE]

\* A slip: the autoupdate flag cannot be taken down.
disable_autoupdate_stays_on(s, b) == s

disable_autoupdate(s, b) ==
    IF ~s.disabled[b] THEN [s EXCEPT !.autoupdate[b] = FALSE] ELSE s

enable_autoupdate(s, b) ==
    IF ~s.disabled[b] THEN [s EXCEPT !.autoupdate[b] = TRUE] ELSE s

disable_edit(s, b) == IF ~s.disabled[b] THEN override_disable_edit(s, b) ELSE s

enable_edit(s, b) == IF ~s.disabled[b] THEN override_enable_edit(s, b) ELSE s

\* A slip: disable() leaves autoupdate on.
disable_edit_only(s, b) == IF ~s.disabled[b] THEN disable_edit(s, b) ELSE s

disable(s, b) ==
    IF ~s.disabled[b] THEN disable_autoupdate(disable_edit(s, b), b) ELSE s

enable(s, b) ==
    IF ~s.disabled[b] THEN enable_autoupdate(enable_edit(s, b), b) ELSE s

mark_as_valid(s, b) == [s EXCEPT !.style[b] = "valid"]

mark_as_not_validated(s, b) == [s EXCEPT !.style[b] = "not_validated"]

mark_as_invalid(s, b) == [s EXCEPT !.style[b] = "invalid"]

\* A user-defined hook is invoked: on_valid(value), on_invalid(value, exc).
Hook(s, h, b, value) ==
    [s EXCEPT !.hooks = Append(@, [h |-> h, b |-> b, v |-> value])]

_on_valid(s, b, value) == Hook(mark_as_valid(s, b), "on_valid", b, value)

\* A slip: the invalid handler marks the field valid.
_on_invalid_marks_valid(s, b, value) ==
    Hook(mark_as_valid(s, b), "on_invalid", b, value)

_on_invalid(s, b, value) == Hook(mark_as_invalid(s, b), "on_invalid", b, value)

----------------------------------------------------------------------------
(* PQSEditUI: status recomputation and its handlers.                       *)

Show(s, btn) == [s EXCEPT !.buttons[btn] = TRUE]

Hide(s, btn) == [s EXCEPT !.buttons[btn] = FALSE]

_on_status_transient(s) ==
    [Hide(Hide(Show(Show(Log(s, "status", "transient"), "save"), "validate"),
               "refresh"), "delete")
        EXCEPT !.label = <<"Transient">>]

_on_status_pending(s) ==
    [Hide(Hide(Show(Show(Log(s, "status", "pending"), "save"), "validate"),
               "refresh"), "delete")
        EXCEPT !.label = <<"Pending">>]

_on_status_persistent(s) ==
    [Show(Show(Show(Show(Log(s, "status", "persistent"), "save"), "validate"),
               "refresh"), "delete")
        EXCEPT !.label = <<"Persistent">>]

_on_status_persistent_modified(s) ==
    [Log(s, "status", "persistent_modified")
        EXCEPT !.label = Append(@, "changes pending")]

_on_status_persistent_unmodified(s) ==
    [Log(s, "status", "persistent_unmodified")
        EXCEPT !.label = Append(@, "no new changes")]

_on_status_deleted_show_delete(s) ==
    [Show(Show(Show(Show(Log(s, "status", "deleted"), "save"), "validate"),
               "refresh"), "delete")
        EXCEPT !.label = <<"Deleted">>]

_on_status_deleted(s) ==
    [Hide(Show(Show(Show(Log(s, "status", "deleted"), "save"), "validate"),
               "refresh"), "delete")
        EXCEPT !.label = <<"Deleted">>]

RECURSIVE DisableAll(_, _)
DisableAll(s, k) ==
    IF k > Len(s.binders.list) THEN s
    ELSE DisableAll(disable(s, s.binders.list[k]), k + 1)

\* A detached handler that would leave the binders as they are.
_on_status_detached_keeps_binders(s) ==
    [Hide(Hide(Hide(Hide(Log(s, "status", "detached"), "save"),
               "refresh"), "validate"), "delete")
        EXCEPT !.label = <<"Detached">>]

_on_status_detached(s) ==
    [Hide(Hide(Hide(Hide(DisableAll(Log(s, "status", "detached"), 1), "save"),
               "refresh"), "validate"), "delete")
        EXCEPT !.label = <<"Detached">>]

\* A recomputation that would leave the persistent sub-handlers out.
update_status_no_sub(s) ==
    CASE s.sstate = "transient" -> _on_status_transient(s)
      [] s.sstate = "pending" -> _on_status_pending(s)
      [] s.sstate = "persistent" -> _on_status_persistent(s)
      [] s.sstate = "deleted" -> _on_status_deleted(s)
      [] s.sstate = "detached" -> _on_status_detached(s)

update_status(s) ==
    CASE s.sstate = "transient" -> _on_status_transient(s)
      [] s.sstate = "pending" -> _on_status_pending(s)
      [] s.sstate = "persistent" ->
            IF s.modified
            THEN _on_status_persistent_modified(_on_status_persistent(s))
            ELSE _on_status_persistent_unmodified(_on_status_persistent(s))
      [] s.sstate = "deleted" -> _on_status_deleted(s)
      [] s.sstate = "detached" -> _on_status_detached(s)

----------------------------------------------------------------------------
(* QLineEditBinder, QDateEditBinder: the channel's value, read and         *)
(* written.                                                                *)

DISABLED_MESSAGE == "<<<Auto>>>"

\* gui_value (getter).  QLineEditBinder: the text, or None for an empty text
\* or the placeholder.  QDateEditBinder: the date shown.
gui_value(s, b) ==
    IF Kind(b) = "QDateEdit" THEN DateV(s.date[b])
    ELSE IF s.text[b] # ""
    THEN IF s.text[b] = DISABLED_MESSAGE THEN NoneV ELSE StrV(s.text[b])
    ELSE NoneV

\* QLineEditBinder.gui_value (setter): the text that setText() is called with.
gui_text(s, b, new_value) ==
    IF new_value = NoneV
    THEN IF s.disabled[b] THEN DISABLED_MESSAGE ELSE ""
    ELSE IF new_value.t # "str" THEN TextOfInt[new_value.i]
    ELSE new_value.s

model_value(s, b) == s.attrs[b]

----------------------------------------------------------------------------
(* PQSFieldBinder: the update / reset protocol.                            *)

\* A slip: an omitted value is not replaced by the channel's value.
update_no_default(s, b, value) ==
    LET r == Validator(b, value)
        s1 == IF r.ok
              THEN _on_valid(Log([s EXCEPT !.attrs[b] = r.v, !.modified = TRUE,
                                           !.ret = TRUE], "update_ok", b), b, value)
              ELSE _on_invalid(Log([s EXCEPT !.ret = FALSE], "update_fail", b), b, value)
    IN  update_status(s1)

\* A slip: the value is stored before the validator has accepted it.
update_stores_first(s, b, value) ==
    LET val == IF value = NoneV THEN gui_value(s, b) ELSE value
        r == Validator(b, val)
        s1 == IF r.ok
              THEN _on_valid(Log([s EXCEPT !.attrs[b] = r.v, !.modified = TRUE,
                                           !.ret = TRUE], "update_ok", b), b, val)
              ELSE _on_invalid(Log([s EXCEPT !.attrs[b] = val, !.ret = FALSE],
                                   "update_fail", b), b, val)
    IN  update_status(s1)

\* update(value): s.ret is the value returned.
update(s, b, value) ==
    LET val == IF value = NoneV THEN gui_value(s, b) ELSE value
        r == Validator(b, val)
        s1 == IF r.ok
              THEN _on_valid(Log([s EXCEPT !.attrs[b] = r.v, !.modified = TRUE,
                                           !.ret = TRUE], "update_ok", b), b, val)
              ELSE _on_invalid(Log([s EXCEPT !.ret = FALSE], "update_fail", b), b, val)
    IN  update_status(s1)

reset_value == NoneV

\* reset(): model_value = reset_value goes through update(); the except
\* branch runs _on_reset_fail(exc), which calls on_reset_fail() without its
\* argument (a TypeError that leaves through the finally clause), the else
\* branch _on_reset_success(), the finally clause _on_reset().
reset(s, b) ==
    LET s1 == update(s, b, reset_value)
    IN  IF s1.raised # "none"
        THEN Log([Log(s1, "on_reset_fail", b) EXCEPT !.raised = "TypeError"],
                 "on_reset", b)
        ELSE Log(Log(s1, "on_reset_success", b), "on_reset", b)

\* A slip: update_from_gui() does not look at the disabled flag.
update_from_gui_unguarded(s, b) ==
    LET s1 == update(s, b, gui_value(s, b))
    IN  IF ~s1.ret THEN reset(s1, b) ELSE s1

update_from_gui(s, b) ==
    IF ~s.disabled[b]
    THEN LET s1 == update(s, b, gui_value(s, b))
         IN  IF ~s1.ret THEN reset(s1, b) ELSE s1
    ELSE s

\* A slip: the change notification updates whether or not autoupdate is on.
_on_autoupdate_always(s, b) == update_from_gui(s, b)

_on_autoupdate(s, b) == IF s.autoupdate[b] THEN update_from_gui(s, b) ELSE s

\* connect_autoupdate(), connect_save(): no-ops on a disabled binder.
connect_autoupdate(s, b) ==
    IF ~s.disabled[b] THEN [s EXCEPT !.connected[b] = TRUE] ELSE s

\* QDateEditBinder defines no signal_save (it is None).
connect_save(s, b) ==
    IF Kind(b) = "QLineEdit" /\ ~s.disabled[b]
    THEN [s EXCEPT !.connected_save[b] = TRUE]
    ELSE s

\* QLineEdit.setText(): textChanged is emitted when the text changes.
setText(s, b, t) ==
    IF t = s.text[b] THEN s
    ELSE LET s1 == [s EXCEPT !.text[b] = t]
         IN  IF s1.connected[b] THEN _on_autoupdate(s1, b) ELSE s1

\* QDateEdit.setDate(): dateChanged is emitted when the date changes.
setDate(s, b, d) ==
    IF d = s.date[b] THEN s
    ELSE LET s1 == [s EXCEPT !.date[b] = d]
         IN  IF s1.connected[b] THEN _on_autoupdate(s1, b) ELSE s1

\* PQSFieldBinder.update_to_gui(): gui_value = model_value.  The setter of
\* QDateEditBinder does nothing for None.
binder_update_to_gui(s, b) ==
    LET s1 == Log(s, "to_gui", b)
    IN  IF Kind(b) = "QDateEdit"
        THEN IF model_value(s, b) = NoneV THEN s1
             ELSE setDate(s1, b, model_value(s, b).s)
        ELSE setText(s1, b, gui_text(s, b, model_value(s, b)))

----------------------------------------------------------------------------
(* The SQLAlchemy session, as far as the one tracked object is concerned.  *)

NoAttrs == [f \in Fields |-> NoneV]

\* Session.add(): a transient object becomes pending; an object already in
\* the session is left alone; an object whose deletion was flushed or
\* committed is refused.
session_add(s) ==
    LET s1 == Log(s, "session", "add")
    IN  CASE s.sstate = "transient" -> [s1 EXCEPT !.sstate = "pending"]
          [] s.sstate \in {"pending", "persistent"} -> s1
          [] OTHER -> [s1 EXCEPT !.raised = "InvalidRequestError"]

\* Session.flush(): an object marked for deletion reaches the deleted state.
session_flush(s) ==
    LET s1 == Log(s, "session", "flush")
    IN  IF s.marked /\ s.sstate = "persistent"
        THEN [s1 EXCEPT !.sstate = "deleted", !.marked = FALSE]
        ELSE s1

\* Session.commit(): succeeds (ok) or raises.  On success a pending object is
\* inserted (the database computes a missing id), a persistent one updated,
\* a deleted one removed and detached.
session_commit(s, ok) ==
    LET s1 == Log(s, "session", "commit")
        withId == [s.attrs EXCEPT !["id"] = IF @ = NoneV THEN AutoId ELSE @]
    IN  IF ~ok THEN [Log(s1, "raise", "commit") EXCEPT !.raised = "SQLAlchemyError"]
        ELSE CASE s.sstate = "pending" ->
                    [s1 EXCEPT !.sstate = "persistent", !.attrs = withId,
                               !.db = withId, !.row = TRUE, !.modified = FALSE]
               [] s.sstate = "persistent" /\ ~s.marked ->
                    [s1 EXCEPT !.db = s.attrs, !.modified = FALSE]
               [] s.sstate = "deleted" \/ (s.sstate = "persistent" /\ s.marked) ->
                    [s1 EXCEPT !.sstate = "detached", !.db = NoAttrs,
                               !.row = FALSE, !.modified = FALSE, !.marked = FALSE]
               [] OTHER -> s1

\* Session.rollback(): a pending object is expunged, a persistent one expires
\* (its attributes read the committed row again), a deletion is undone.
session_rollback(s) ==
    LET s1 == Log(s, "session", "rollback")
    IN  CASE s.sstate = "pending" -> [s1 EXCEPT !.sstate = "transient"]
          [] s.sstate \in {"persistent", "deleted"} ->
                [s1 EXCEPT !.sstate = "persistent", !.attrs = s.db,
                           !.modified = FALSE, !.marked = FALSE]
          [] OTHER -> s1

\* Session.refresh(obj): only a persistent object can be refreshed.
session_refresh(s) ==
    LET s1 == Log(s, "session", "refresh")
    IN  IF s.sstate = "persistent"
        THEN [s1 EXCEPT !.attrs = s.db, !.modified = FALSE]
        ELSE [s1 EXCEPT !.raised = "InvalidRequestError"]

\* Session.delete(obj): only a persisted object can be marked for deletion.
session_delete(s) ==
    LET s1 == Log(s, "session", "delete")
    IN  CASE s.sstate = "persistent" -> [s1 EXCEPT !.marked = TRUE]
          [] s.sstate = "deleted" -> s1
          [] OTHER -> [s1 EXCEPT !.raised = "InvalidRequestError"]

----------------------------------------------------------------------------
(* PQSEditUI: the actions.                                                 *)

RECURSIVE update_to_gui_from(_, _, _)
update_to_gui_from(s, skip_validate, k) ==
    IF k > Len(s.binders.list) THEN s
    ELSE LET b == s.binders.list[k]
             s1 == binder_update_to_gui(disable(s, b), b)
             s2 == IF skip_validate THEN mark_as_not_validated(s1, b)
                   ELSE update(s1, b, NoneV)
         IN  update_to_gui_from(enable(s2, b), skip_validate, k + 1)

\* A slip: the skip_validate flag is ignored and every field is validated.
update_to_gui_always_validates(s, skip_validate) == update_to_gui_from(s, FALSE, 1)

update_to_gui(s, skip_validate) == update_to_gui_from(s, skip_validate, 1)

\* A slip: the fields are reloaded in validate mode after a commit.
commit_revalidates(s, ok) ==
    LET c == session_commit(s, ok)
        rollback == c.raised # "none"
        caught == [c EXCEPT !.raised = "none"]
        s1 == IF rollback THEN session_rollback(caught)
              ELSE update_to_gui_from(caught, FALSE, 1)
    IN  update_status(s1)

commit(s, ok) ==
    LET c == session_commit(s, ok)
        rollback == c.raised # "none"
        caught == [c EXCEPT !.raised = "none"]
        s1 == IF rollback THEN session_rollback(caught)
              ELSE update_to_gui(caught, TRUE)
    IN  update_status(s1)

RECURSIVE save_fields(_, _, _)

\* A slip: the validation pass stops at the first binder that fails.
save_fields_stop(s, k, fields_are_valid) ==
    IF k > Len(s.binders.list) \/ ~fields_are_valid
    THEN [s |-> s, valid |-> fields_are_valid]
    ELSE LET u == update(s, s.binders.list[k], NoneV)
         IN  save_fields(u, k + 1, fields_are_valid /\ u.ret)

\* The validation pass of save(): update() on every binder, in order.
save_fields(s, k, fields_are_valid) ==
    IF k > Len(s.binders.list) THEN [s |-> s, valid |-> fields_are_valid]
    ELSE LET u == update(s, s.binders.list[k], NoneV)
         IN  save_fields(u, k + 1, fields_are_valid /\ u.ret)

\* A slip: the result of the validation pass is not consulted.
save_commits_anyway(s, ok) ==
    IF s.sstate = "deleted" THEN commit(s, ok)
    ELSE LET r == save_fields(s, 1, TRUE)
             a == session_add(r.s)
         IN  IF a.raised # "none" THEN a ELSE commit(a, ok)

\* A slip: the object is never added to the session.
save_without_add(s, ok) ==
    IF s.sstate = "deleted" THEN commit(s, ok)
    ELSE LET r == save_fields(s, 1, TRUE)
         IN  IF r.valid THEN commit(r.s, ok)
             ELSE [r.s EXCEPT !.raised = "PQSFormFieldsNotValidError"]

\* A slip: no delete mode, a pending deletion is saved like an edit.
save_no_delete_mode(s, ok) ==
    LET r == save_fields(s, 1, TRUE)
    IN  IF r.valid
        THEN LET a == session_add(r.s)
             IN  IF a.raised # "none" THEN a ELSE commit(a, ok)
        ELSE [r.s EXCEPT !.raised = "PQSFormFieldsNotValidError"]

save(s, ok) ==
    IF s.sstate = "deleted" THEN commit(s, ok)
    ELSE LET r == save_fields(s, 1, TRUE)
         IN  IF r.valid
             THEN LET a == session_add(r.s)
                  IN  IF a.raised # "none" THEN a ELSE commit(a, ok)
             ELSE [r.s EXCEPT !.raised = "PQSFormFieldsNotValidError"]

\* A slip: validate() flushes the session after validating.
validate_flushes(s) == session_flush(update_to_gui(s, FALSE))

\* A slip: validate() reloads the fields in skip-validate mode.
validate_skips(s) == update_to_gui(s, TRUE)

validate(s) == update_to_gui(s, FALSE)

\* A slip: a pending deletion is not rolled back before the re-read.
refresh_no_rollback(s) ==
    LET s2 == session_refresh(s)
    IN  IF s2.raised # "none" THEN s2
        ELSE update_status(update_to_gui(s2, TRUE))

\* A slip: the re-read fields are validated instead of marked not-validated.
refresh_validates(s) ==
    LET s1 == IF s.sstate = "deleted" THEN session_rollback(s) ELSE s
        s2 == session_refresh(s1)
    IN  IF s2.raised # "none" THEN s2
        ELSE update_status(update_to_gui(s2, FALSE))

refresh(s) ==
    LET s1 == IF s.sstate = "deleted" THEN session_rollback(s) ELSE s
        s2 == session_refresh(s1)
    IN  IF s2.raised # "none" THEN s2
        ELSE update_status(update_to_gui(s2, TRUE))

\* A slip: the deletion is marked but not flushed.
delete_no_flush(s) ==
    LET s1 == session_delete(s)
    IN  IF s1.raised # "none" THEN s1 ELSE update_status(s1)

delete(s) ==
    LET s1 == session_delete(s)
    IN  IF s1.raised # "none" THEN s1
        ELSE update_status(session_flush(s1))

\* _binders is None / a list.
NoList == [some |-> FALSE, list |-> <<>>]
List(q) == [some |-> TRUE, list |-> q]

\* _form_ui is None: no setupUi, no binders attribute, no channel.
NoForm == [setupUi |-> FALSE, binders |-> NoList, channels |-> <<>>]

\* _set_model(model_cls_obj): a class derived from the base yields a new,
\* empty object; an instance of the base is used as it is, in the state the
\* caller built it in; anything else is refused.
_set_model(s, cls_obj) ==
    IF cls_obj.kind = "class"
    THEN IF cls_obj.base
         THEN [s EXCEPT !.attrs = NoAttrs, !.sstate = "transient",
                        !.db = NoAttrs, !.row = FALSE]
         ELSE [s EXCEPT !.raised = "PQSModelNotValidError"]
    ELSE IF cls_obj.kind = "instance" /\ cls_obj.base
         THEN [s EXCEPT !.attrs = cls_obj.obj.attrs, !.sstate = cls_obj.obj.sstate,
                        !.db = cls_obj.obj.db, !.row = cls_obj.obj.row]
         ELSE [s EXCEPT !.raised = "PQSModelNotValidError"]

\* _set_session(session): None asks the factory for a session, a Session
\* is used as it is, anything else is refused.
_set_session(s, se) ==
    CASE se = "None" -> [s EXCEPT !.session = "factory"]
      [] se = "Session" -> [s EXCEPT !.session = "given"]
      [] OTHER -> [s EXCEPT !.raised = "PQSSessionNotValidError"]

\* A constructor that would check the session before the model.
init_session_first(s, cls_obj, se) ==
    LET e == _set_session(s, se)
    IN  IF e.raised # "none" THEN e
        ELSE LET m == _set_model(e, cls_obj)
             IN  IF m.raised # "none" THEN [m EXCEPT !.session = s.session]
                 ELSE [m EXCEPT !.form = NoForm, !.binders = NoList]

\* PQSEditUI.__init__(cls_obj, session): the model first, then the session.
\* When either is refused no editor comes to exist: nothing but the
\* exception is left of the call.
init(s, cls_obj, se) ==
    LET m == _set_model(s, cls_obj)
    IN  IF m.raised # "none" THEN m
        ELSE LET e == _set_session(m, se)
             IN  IF e.raised # "none" THEN [e EXCEPT !.attrs = s.attrs,
                                               !.sstate = s.sstate,
                                               !.db = s.db, !.row = s.row]
                 ELSE [e EXCEPT !.form = NoForm, !.binders = NoList]

\* PQSFieldBinder.__init__, as called by lookup_binders() for a channel.
binder_init(s, b) ==
    LET s0 == Log(s, "binder_init", b)
        s1 == [s0 EXCEPT !.autoupdate[b] = TRUE, !.disabled[b] = s.readOnly[b]]
        s2 == IF s1.disabled[b] THEN override_disable_edit(s1, b) ELSE s1
    IN  connect_save(connect_autoupdate(s2, b), b)

\* The widget classes that have a default binder.
GUI_BINDERS == {"QLineEdit", "QDateEdit"}

\* attr_class_name[1:]
field_suffix(cls) ==
    CASE cls = "QLineEdit" -> "LineEdit"
      [] cls = "QDateEdit" -> "DateEdit"
      [] OTHER -> "Label"

\* attr_name.replace(field_suffix, ""), on an attribute name given as the
\* sequence of its parts.
NamePart(attr, suffix) == LET IsStem(x) == x # suffix IN SelectSeq(attr, IsStem)

\* getattr(self._model, name) succeeds.
name_exists(parts) == Len(parts) = 1 /\ parts[1] \in Fields

\* validate_binders is declared @classmethod with the single parameter
\* `binders`; self.validate_binders(binders) passes the class and the list,
\* two positional arguments, and Python raises TypeError before the body runs.
validate_binders(s, bs) == [s EXCEPT !.raised = "TypeError"]

\* A guess that would take a widget of any class.
guess_binder_any_widget(s, c) ==
    LET parts == NamePart(c.attr, field_suffix(c.cls))
    IN  IF name_exists(parts)
        THEN [binder_init(s, parts[1])
                 EXCEPT !.binders = List(Append(s.binders.list, parts[1]))]
        ELSE s

\* One turn of the guessing loop, for the attribute c of the form.
guess_binder(s, c) ==
    LET parts == NamePart(c.attr, field_suffix(c.cls))
    IN  IF c.cls \in GUI_BINDERS /\ name_exists(parts)
        THEN [binder_init(s, parts[1])
                 EXCEPT !.binders = List(Append(s.binders.list, parts[1]))]
        ELSE s

\* "3. Guess them": one default binder per recognised channel whose derived
\* name is an attribute of the model, in dir() order.
RECURSIVE guess_binders(_, _)
guess_binders(s, k) ==
    IF k > Len(s.form.channels) THEN s
    ELSE guess_binders(guess_binder(s, s.form.channels[k]), k + 1)

\* A lookup that would guess again although binders are set.
lookup_binders_again(s) ==
    LET explicit == s.form.binders
        v == IF explicit.some THEN validate_binders(s, explicit.list) ELSE s
    IN  IF v.raised # "none" THEN v
        ELSE LET g == guess_binders([v EXCEPT !.binders = List(<<>>)], 1)
             IN  IF Len(g.binders.list) = 0
                 THEN [g EXCEPT !.raised = "PQSBindersNotFoundError"]
                 ELSE g

\* A lookup that would accept an empty result.
lookup_binders_silent(s) ==
    IF s.binders.some THEN s
    ELSE LET explicit == s.form.binders
             v == IF explicit.some THEN validate_binders(s, explicit.list) ELSE s
         IN  IF v.raised # "none" THEN v
             ELSE guess_binders([v EXCEPT !.binders = List(<<>>)], 1)

\* lookup_binders(): nothing when binders are set; a `binders` attribute of
\* the form is validated and stored; then, in every case, the list is
\* emptied and guessed from the form's widgets; an empty result is an error.
lookup_binders(s) ==
    IF s.binders.some THEN s
    ELSE LET explicit == s.form.binders
             v == IF explicit.some THEN validate_binders(s, explicit.list) ELSE s
         IN  IF v.raised # "none" THEN v
             ELSE LET s1 == IF explicit.some THEN [v EXCEPT !.binders = explicit]
                            ELSE v
                      g == guess_binders([s1 EXCEPT !.binders = List(<<>>)], 1)
                  IN  IF Len(g.binders.list) = 0
                      THEN [g EXCEPT !.raised = "PQSBindersNotFoundError"]
                      ELSE g

\* The binders setter.
set_binders(s, bs) ==
    IF ~s.binders.some
    THEN LET v == validate_binders(s, bs.list)
         IN  IF v.raised # "none" THEN v ELSE [v EXCEPT !.binders = bs]
    ELSE s

RECURSIVE bind_validate(_, _)
bind_validate(s, k) ==
    IF k > Len(s.binders.list) THEN s
    ELSE LET s1 == IF s.sstate = "persistent" /\ ~s.modified
                   THEN update_status(s)
                   ELSE update(s, s.binders.list[k], NoneV)
         IN  bind_validate(s1, k + 1)

attach_events(s) == [s EXCEPT !.attached = TRUE]

\* A slip: the channels are filled in validate mode.
bind_form_validates(s, form_ui) ==
    IF ~form_ui.setupUi THEN [s EXCEPT !.raised = "PQSUINotValidError"]
    ELSE LET l == lookup_binders([s EXCEPT !.form = form_ui])
         IN  IF l.raised # "none" THEN l
             ELSE attach_events(bind_validate(update_to_gui(l, FALSE), 1))

bind_form(s, form_ui) ==
    IF ~form_ui.setupUi THEN [s EXCEPT !.raised = "PQSUINotValidError"]
    ELSE LET l == lookup_binders([s EXCEPT !.form = form_ui])
         IN  IF l.raised # "none" THEN l
             ELSE attach_events(bind_validate(update_to_gui(l, TRUE), 1))

\* A user keystroke in channel b: the text changes, textChanged is emitted.
user_edit(s, b, t) == setText(s, b, t)

----------------------------------------------------------------------------
(* The query side: the operator register (PQSOperator), the query form     *)
(* (PQSQueryUI) and the table of results (PQSTableModel).  Text is kept as *)
(* a sequence of characters, so that "%" + value + "%" is a concatenation. *)

\* The operator classes of query.py, in the order of their definition, each
\* with the name of the column method it stands for.
Builtins ==
    << [cls |-> "PQSOperatorLike", operator |-> "like"],
       [cls |-> "PQSOperatorILike", operator |-> "ilike"],
       [cls |-> "PQSOperatorEquals", operator |-> "__eq__"],
       [cls |-> "PQSOperatorNotEquals", operator |-> "__ne__"],
       [cls |-> "PQSOperatorGreater", operator |-> "__gt__"],
       [cls |-> "PQSOperatorGreaterEquals", operator |-> "__ge__"],
       [cls |-> "PQSOperatorLess", operator |-> "__lt__"],
       [cls |-> "PQSOperatorLessEquals", operator |-> "__le__"],
       [cls |-> "PQSOperatorContains", operator |-> "in_"],
       [cls |-> "PQSOperatorNotContains", operator |-> "notin_"],
       [cls |-> "PQSOperatorIsNull", operator |-> "is_"],
       [cls |-> "PQSOperatorIsNotNull", operator |-> "isnot"] >>

\* A register that would number a class after appending it.
register_after_append(s, c) ==
    LET new_cls == [cls |-> c.cls, operator |-> c.operator, id |-> Len(s.listing) + 1]
    IN  [s EXCEPT !.listing = Append(s.listing, new_cls),
                  !.map_by_name = [n \in DOMAIN s.map_by_name \cup {c.cls} |->
                                      IF n = c.cls THEN new_cls ELSE s.map_by_name[n]]]

\* PQSOperator.__new__: the new class gets the length of the list as its
\* id, is appended to the list and stored in the map under its class name.
register(s, c) ==
    LET list_len == Len(s.listing)
        new_cls == [cls |-> c.cls, operator |-> c.operator, id |-> list_len]
    IN  [s EXCEPT !.listing = Append(s.listing, new_cls),
                  !.map_by_name = [n \in DOMAIN s.map_by_name \cup {c.cls} |->
                                      IF n = c.cls THEN new_cls ELSE s.map_by_name[n]]]

\* The register before any operator class is defined, and once query.py
\* is imported.
NoOperators == [listing |-> <<>>, map_by_name |-> [n \in {} |-> 0]]
RECURSIVE imported(_, _)
imported(s, k) ==
    IF k > Len(Builtins) THEN s ELSE imported(register(s, Builtins[k]), k + 1)

\* PQSOperatorLike.id and the like: the id of the class query.py defines
\* under that name.
ClassId(s, name) ==
    s.listing[CHOOSE k \in 1..Len(Builtins) : Builtins[k].cls = name].id

\* The columns of the model, in get_model_columns_names() order.
Columns == <<"id", "email", "number", "birthdate">>

\* "%" in query_value
HasWildcard(v) == \E k \in 1..Len(v) : v[k] = "%"

\* None / a query: the column method called, on which column, with which
\* argument (None or text) and which escape keyword.
NoQuery ==
    [set |-> FALSE, column |-> "", operator |-> "", none |-> FALSE,
     value |-> <<>>, escape |-> ""]
Filter(column, operator, none, value, escape) ==
    [set |-> TRUE, column |-> column, operator |-> operator, none |-> none,
     value |-> value, escape |-> escape]

\* A generate_query that would wrap every like value.
generate_query_wraps_always(s, column_id, operator_id, query_input_value) ==
    LET column_name == Columns[column_id + 1]
        operator_obj == s.listing[operator_id + 1]
        is_like == operator_id \in {ClassId(s, "PQSOperatorLike"),
                                    ClassId(s, "PQSOperatorILike")}
        is_null == operator_id \in {ClassId(s, "PQSOperatorIsNull"),
                                    ClassId(s, "PQSOperatorIsNotNull")}
        query_value == IF is_like
                       THEN <<"%">> \o query_input_value \o <<"%">>
                       ELSE query_input_value
    IN  IF is_null
        THEN Filter(column_name, operator_obj.operator, TRUE, <<>>, "")
        ELSE IF is_like
             THEN Filter(column_name, operator_obj.operator, FALSE, query_value, "/")
             ELSE Filter(column_name, operator_obj.operator, FALSE, query_value, "")

\* A generate_query that would hand the text to is_ and isnot too.
generate_query_null_takes_value(s, column_id, operator_id, query_input_value) ==
    LET column_name == Columns[column_id + 1]
        operator_obj == s.listing[operator_id + 1]
        is_like == operator_id \in {ClassId(s, "PQSOperatorLike"),
                                    ClassId(s, "PQSOperatorILike")}
        query_value == IF is_like /\ ~HasWildcard(query_input_value)
                       THEN <<"%">> \o query_input_value \o <<"%">>
                       ELSE query_input_value
    IN  IF is_like
        THEN Filter(column_name, operator_obj.operator, FALSE, query_value, "/")
        ELSE Filter(column_name, operator_obj.operator, FALSE, query_value, "")

\* PQSQueryUI.generate_query(), on the indices of the two comboboxes and
\* the text of the value field.
generate_query(s, column_id, operator_id, query_input_value) ==
    LET column_name == Columns[column_id + 1]
        operator_obj == s.listing[operator_id + 1]
        is_like == operator_id \in {ClassId(s, "PQSOperatorLike"),
                                    ClassId(s, "PQSOperatorILike")}
        is_null == operator_id \in {ClassId(s, "PQSOperatorIsNull"),
                                    ClassId(s, "PQSOperatorIsNotNull")}
        query_value == IF is_like /\ ~HasWildcard(query_input_value)
                       THEN <<"%">> \o query_input_value \o <<"%">>
                       ELSE query_input_value
    IN  IF is_null
        THEN Filter(column_name, operator_obj.operator, TRUE, <<>>, "")
        ELSE IF is_like
             THEN Filter(column_name, operator_obj.operator, FALSE, query_value, "/")
             ELSE Filter(column_name, operator_obj.operator, FALSE, query_value, "")

\* Sessions are told apart by where they come from: "S" is the Session the
\* program holds, "F1", "F2", ... are made by SessionFactory, one at every
\* call; "None" is None and "other" an object that is no Session.
NoSessions == [ui |-> "unset", table |-> "unset", made |-> 0, ret |-> "None"]
IsSessionObject(x) == x \in {"S", "F1", "F2", "F3"}
SessionFactory(s) ==
    LET n == s.sessions.made + 1
    IN  [s EXCEPT !.sessions.made = n,
                  !.sessions.ret = CASE n = 1 -> "F1" [] n = 2 -> "F2"
                                     [] OTHER -> "F3"]

\* helpers.get_session(self, session=None): a module-level function with two
\* parameters; it looks at the second.
get_session(s, self, se) ==
    IF se = "None" THEN SessionFactory(s)
    ELSE IF IsSessionObject(se) THEN [s EXCEPT !.sessions.ret = se]
    ELSE [s EXCEPT !.raised = "PQSSessionNotValidError"]

\* helpers.get_model_class(model_cls): a class derived from Base, or an error.
get_model_class(s, model) ==
    IF model.kind = "class" /\ model.base THEN s
    ELSE [s EXCEPT !.raised = "PQSModelNotValidError"]

\* PQSTableModel.__init__(model, session): get_session(session) passes the
\* session as the first argument.
table_init(s, model, se) ==
    LET m == get_model_class(s, model)
        g == get_session(m, se, "None")
    IN  IF m.raised # "none" THEN m
        ELSE IF g.raised # "none" THEN g
        ELSE [g EXCEPT !.sessions.table = g.sessions.ret]

\* PQSQueryUI.__init__(model, session, table_model): the model class, the
\* session through get_session(session), then the table model: the one
\* given if it is a PQSTableModel, else a new one built on self._session.
query_init(s, model, se, table_model) ==
    LET m == get_model_class(s, model)
        g == get_session(m, se, "None")
        u == [g EXCEPT !.sessions.ui = g.sessions.ret]
    IN  IF m.raised # "none" THEN m
        ELSE IF g.raised # "none" THEN g
        ELSE IF table_model = "instance" THEN u
        ELSE table_init(u, model, u.sessions.ui)

\* PQSTableModel.DEFAULT_SORT_COLUMN, DEFAULT_LIMIT
DEFAULT_SORT_COLUMN == 0
DEFAULT_LIMIT == 250

\* The query refresh() hands to the database: the stored query, ordered by
\* the sort column, descending if so requested, and limited.
NoIssued ==
    [set |-> FALSE, query |-> NoQuery, order_by |-> "", desc |-> FALSE, limit |-> 0]
sorted_limited(s) ==
    [set |-> TRUE, query |-> s.query,
     order_by |-> Columns[s.sorting.column + 1],
     desc |-> (s.sorting.order = "DescendingOrder"),
     limit |-> DEFAULT_LIMIT]

\* A refresh that would give up on a failed query.
table_refresh_gives_up(s, ok, rows) ==
    IF ~s.query.set THEN s
    ELSE LET s1 == Log(s, "signal", "layoutAboutToBeChanged")
             s2 == Log([s1 EXCEPT !.issued = sorted_limited(s)], "query", "all")
         IN  IF ok
             THEN Log(Log(Log(Log([s2 EXCEPT !.results = List(rows)],
                                  "results", "set"),
                              "hook", "on_refresh_success"),
                          "hook", "on_refresh"),
                      "signal", "layoutChanged")
             ELSE Log(Log(s2, "hook", "on_refresh_failed"), "hook", "on_refresh")

\* PQSTableModel.refresh(): nothing without a query; otherwise the signal
\* layoutAboutToBeChanged, the query with the current sort and limit, the
\* rows stored and on_refresh_success on success, on_refresh_failed on
\* failure, on_refresh in both cases, and the signal layoutChanged.
table_refresh(s, ok, rows) ==
    IF ~s.query.set THEN s
    ELSE LET s1 == Log(s, "signal", "layoutAboutToBeChanged")
             s2 == Log([s1 EXCEPT !.issued = sorted_limited(s)], "query", "all")
             s3 == IF ok
                   THEN Log(Log([s2 EXCEPT !.results = List(rows)],
                                "results", "set"),
                            "hook", "on_refresh_success")
                   ELSE Log(s2, "hook", "on_refresh_failed")
         IN  Log(Log(s3, "hook", "on_refresh"), "signal", "layoutChanged")

\* A sort that would only record the column and the order.
table_sort_no_refresh(s, col, order, ok, rows) ==
    [s EXCEPT !.sorting = [column |-> col, order |-> order]]

\* PQSTableModel.sort(col, order)
table_sort(s, col, order, ok, rows) ==
    table_refresh([s EXCEPT !.sorting = [column |-> col, order |-> order]],
                  ok, rows)

\* PQSQueryUI.do_query()
do_query(s, column_id, operator_id, query_input_value, ok, rows) ==
    table_refresh([s EXCEPT !.query = generate_query(s, column_id, operator_id,
                                                     query_input_value)],
                  ok, rows)

----------------------------------------------------------------------------
(* The state machine.                                                      *)

Cur ==
    [attrs |-> attrs, db |-> db, row |-> row, sstate |-> sstate,
     modified |-> modified, marked |-> marked, text |-> text, date |-> date,
     readOnly |-> readOnly, style |-> style, autoupdate |-> autoupdate,
     disabled |-> disabled, connected |-> connected,
     connected_save |-> connected_save, buttons |-> buttons, label |-> label,
     session |-> session, listing |-> listing, map_by_name |-> map_by_name,
     query |-> query, results |-> results, sorting |-> sorting,
     issued |-> issued, sessions |-> sessions,
     form |-> form, binders |-> binders,
     attached |-> bound,
     log |-> <<>>, hooks |-> <<>>, raised |-> "none", ret |-> TRUE]

\* A handler called without a binder or a value.
NoArg == [b |-> "", v |-> NoneV]

Install(r, name, a) ==
    /\ attrs' = r.attrs
    /\ db' = r.db
    /\ row' = r.row
    /\ sstate' = r.sstate
    /\ modified' = r.modified
    /\ marked' = r.marked
    /\ text' = r.text
    /\ date' = r.date
    /\ readOnly' = r.readOnly
    /\ style' = r.style
    /\ autoupdate' = r.autoupdate
    /\ disabled' = r.disabled
    /\ connected' = r.connected
    /\ connected_save' = r.connected_save
    /\ buttons' = r.buttons
    /\ session' = r.session
    /\ listing' = r.listing
    /\ map_by_name' = r.map_by_name
    /\ query' = r.query
    /\ results' = r.results
    /\ sorting' = r.sorting
    /\ issued' = r.issued
    /\ sessions' = r.sessions
    /\ form' = r.form
    /\ binders' = r.binders
    /\ bound' = r.attached
    /\ label' = r.label
    /\ log' = r.log
    /\ hooks' = r.hooks
    /\ raised' = r.raised
    /\ ret' = r.ret
    /\ op' = name
    /\ arg' = a
    /\ was' = attrs
    /\ pre' = Status(sstate, modified)
    /\ after_bad_edit' =
          /\ op = "edit" /\ pre = "PersistentClean"
          /\ \E k \in 1..Len(log) : log[k].e = "update_fail"

\* A form descriptor: whether it has a callable setupUi, its `binders`
\* attribute (None when it has none) and its attributes in dir() order, each
\* with the parts of its name and the class of its value.
Chan(stem, suffix, cls) == [attr |-> <<stem, suffix>>, cls |-> cls]

\* The form of the test program, reduced to its three QLineEdit channels.
UserForm ==
    [setupUi |-> TRUE, binders |-> NoList,
     channels |-> <<Chan("email", "LineEdit", "QLineEdit"),
                    Chan("id", "LineEdit", "QLineEdit"),
                    Chan("number", "LineEdit", "QLineEdit")>>]

\* The same form with its QDateEdit channel.
DatedForm ==
    [UserForm EXCEPT !.channels =
        <<Chan("birthdate", "DateEdit", "QDateEdit")>> \o UserForm.channels]

\* The objects the test program builds before it constructs the editor
\* (add, edit-transient, edit-pending, edit-persistent, edit-persistent-wrong).
GoodUser ==
    [id |-> NoneV, email |-> StrV("a@b.com"), number |-> IntV(5),
     birthdate |-> NoneV]
StoredUser == [GoodUser EXCEPT !["id"] = AutoId]
WrongUser == [StoredUser EXCEPT !["email"] = StrV("not-an-email")]

\* The same stored users with the birthdates the test program gives them.
BornUser == [StoredUser EXCEPT !["birthdate"] = DateV("1995-09-21")]
FutureUser == [WrongUser EXCEPT !["birthdate"] = DateV("2099-12-12")]

Scenarios ==
    { [attrs |-> NoAttrs, sstate |-> "transient", db |-> NoAttrs, row |-> FALSE],
      [attrs |-> GoodUser, sstate |-> "transient", db |-> NoAttrs, row |-> FALSE],
      [attrs |-> GoodUser, sstate |-> "pending", db |-> NoAttrs, row |-> FALSE],
      [attrs |-> StoredUser, sstate |-> "persistent", db |-> StoredUser, row |-> TRUE],
      [attrs |-> WrongUser, sstate |-> "persistent", db |-> WrongUser, row |-> TRUE] }

\* The same scenarios for a form that has a date channel.
DatedScenarios ==
    { [attrs |-> NoAttrs, sstate |-> "transient", db |-> NoAttrs, row |-> FALSE],
      [attrs |-> BornUser, sstate |-> "persistent", db |-> BornUser, row |-> TRUE],
      [attrs |-> FutureUser, sstate |-> "persistent", db |-> FutureUser, row |-> TRUE] }

\* The object as the program built it, fresh widgets, and no form bound.
Fresh(scenarios) ==
    /\ \E sc \in scenarios :
          /\ attrs = sc.attrs
          /\ sstate = sc.sstate
          /\ db = sc.db
          /\ row = sc.row
    /\ modified = FALSE
    /\ marked = FALSE
    /\ text = [b \in Fields |-> ""]
    /\ date = [b \in Fields |-> DefaultDate]
    /\ readOnly = [b \in Fields |-> b = "id"]
    /\ style = [b \in Fields |-> "none"]
    /\ autoupdate = [b \in Fields |-> FALSE]
    /\ disabled = [b \in Fields |-> FALSE]
    /\ connected = [b \in Fields |-> FALSE]
    /\ connected_save = [b \in Fields |-> FALSE]
    /\ buttons = [n \in ButtonNames |-> TRUE]
    /\ label = <<>>
    /\ query = NoQuery
    /\ results = NoList
    /\ sorting = [column |-> DEFAULT_SORT_COLUMN, order |-> "AscendingOrder"]
    /\ issued = NoIssued
    /\ sessions = NoSessions
    /\ form = NoForm
    /\ binders = NoList
    /\ bound = FALSE
    /\ pre = Status(sstate, modified)
    /\ arg = NoArg
    /\ was = attrs
    /\ ret = TRUE
    /\ after_bad_edit = FALSE
    /\ raised = "none"
    /\ log = <<>>
    /\ hooks = <<>>

\* The editor constructed on one of these objects; the test program passes
\* no session with a transient object and the object's session otherwise.
InitWith(scenarios) ==
    /\ Fresh(scenarios)
    /\ listing = imported(NoOperators, 1).listing
    /\ map_by_name = imported(NoOperators, 1).map_by_name
    /\ session = (IF sstate = "transient" THEN "factory" ELSE "given")
    /\ op = "init"

Init == InitWith(Scenarios)

BindForm(f) ==
    /\ ~bound
    /\ Install(bind_form(Cur, f), "bind_form", NoArg)

Bind == BindForm(UserForm)

Save ==
    /\ bound
    /\ \E ok \in BOOLEAN : Install(save(Cur, ok), "save", NoArg)

Commit ==
    /\ bound
    /\ \E ok \in BOOLEAN : Install(commit(Cur, ok), "commit", NoArg)

Validate ==
    /\ bound
    /\ Install(validate(Cur), "validate", NoArg)

Refresh ==
    /\ bound
    /\ Install(refresh(Cur), "refresh", NoArg)

\* delete() on a detached object is reachable only programmatically (the
\* button is hidden) and is left out.
Delete ==
    /\ bound
    /\ sstate # "detached"
    /\ Install(delete(Cur), "delete", NoArg)

UserEdit ==
    /\ bound
    /\ \E b \in BinderSet, t \in Texts :
          /\ ~readOnly[b]
          /\ t # text[b]
          /\ Install(user_edit(Cur, b, t), "edit", [b |-> b, v |-> StrV(t)])

Next == Bind \/ Save \/ Commit \/ Validate \/ Refresh \/ Delete \/ UserEdit

Spec == Init /\ [][Next]_vars

----------------------------------------------------------------------------
(* A program driving one binder directly, through its public methods: the  *)
(* first call picks the binder, the later calls and keystrokes stay on it. *)

\* b is one of the editor's binders.
InList(b) == \E k \in 1..Len(binders.list) : binders.list[k] = b

Driven(b) == InList(b) /\ (arg = NoArg \/ arg.b = b)

\* The values a program passes to update(value).
Values ==
    {NoneV, StrV("a@b.com"), StrV("not-an-email"), StrV("5"), IntV(7),
     DateV("1995-09-21"), DateV("2099-12-12")}

ToggleNames ==
    {"enable", "disable", "enable_edit", "disable_edit",
     "enable_autoupdate", "disable_autoupdate"}

ConnectNames == {"connect_autoupdate", "connect_save"}

binder_call(s, b, name) ==
    CASE name = "enable" -> enable(s, b)
      [] name = "disable" -> disable(s, b)
      [] name = "enable_edit" -> enable_edit(s, b)
      [] name = "disable_edit" -> disable_edit(s, b)
      [] name = "enable_autoupdate" -> enable_autoupdate(s, b)
      [] name = "disable_autoupdate" -> disable_autoupdate(s, b)
      [] name = "connect_autoupdate" -> connect_autoupdate(s, b)
      [] name = "connect_save" -> connect_save(s, b)

Update ==
    /\ bound
    /\ \E b \in Fields, v \in Values :
          /\ Driven(b)
          /\ Install(update(Cur, b, v), "update", [b |-> b, v |-> v])

Reset ==
    /\ bound
    /\ \E b \in Fields :
          /\ Driven(b)
          /\ Install(reset(Cur, b), "reset", [b |-> b, v |-> NoneV])

UpdateFromGui ==
    /\ bound
    /\ \E b \in Fields :
          /\ Driven(b)
          /\ Install(update_from_gui(Cur, b), "update_from_gui",
                     [b |-> b, v |-> NoneV])

UpdateToGui ==
    /\ bound
    /\ \E b \in Fields :
          /\ Driven(b)
          /\ Install(binder_update_to_gui(Cur, b), "update_to_gui",
                     [b |-> b, v |-> NoneV])

Toggle ==
    /\ bound
    /\ \E b \in Fields, name \in ToggleNames :
          /\ Driven(b)
          /\ Install(binder_call(Cur, b, name), name, [b |-> b, v |-> NoneV])

\* A second connect() of a connected signal would run the slot twice per
\* emission; connect is called here only where no connection exists yet.
Connect ==
    /\ bound
    /\ \E b \in Fields, name \in ConnectNames :
          /\ Driven(b)
          /\ name = "connect_autoupdate" => ~connected[b]
          /\ name = "connect_save" => ~connected_save[b]
          /\ Install(binder_call(Cur, b, name), name, [b |-> b, v |-> NoneV])

\* A user keystroke in the driven binder's channel.
Type ==
    /\ bound
    /\ \E b \in Fields, t \in Texts :
          /\ Driven(b) /\ Kind(b) = "QLineEdit"
          /\ ~readOnly[b]
          /\ t # text[b]
          /\ Install(user_edit(Cur, b, t), "edit", [b |-> b, v |-> StrV(t)])

\* The user picks a date in the driven binder's QDateEdit.
PickDate ==
    /\ bound
    /\ \E b \in Fields, d \in Dates :
          /\ Driven(b) /\ Kind(b) = "QDateEdit"
          /\ ~readOnly[b]
          /\ d # date[b]
          /\ Install(setDate(Cur, b, d), "edit", [b |-> b, v |-> DateV(d)])

BindDated == BindForm(DatedForm)

InitBinder == InitWith(Scenarios \cup DatedScenarios)

NextBinder ==
    BindDated \/ Type \/ PickDate \/ Update \/ Reset \/ UpdateFromGui
        \/ UpdateToGui \/ Toggle \/ Connect

SpecBinder == InitBinder /\ [][NextBinder]_vars

----------------------------------------------------------------------------

(* A program setting an editor up: it constructs the editor from what it   *)
(* has at hand, binds one of several form descriptors, and may call        *)
(* lookup_binders() and assign the binders property itself.                *)

\* Nothing exists yet: the variables hold an empty object and fresh widgets.
InitSetup ==
    /\ Fresh({[attrs |-> NoAttrs, sstate |-> "transient", db |-> NoAttrs,
               row |-> FALSE]})
    /\ listing = imported(NoOperators, 1).listing
    /\ map_by_name = imported(NoOperators, 1).map_by_name
    /\ session = "unset"
    /\ op = "none"

\* What a program may pass as cls_obj: the model class, a class that is not
\* a model, one of the objects of the test program, or an object that is
\* not a model; and as session: None, a Session, or an object that is not one.
NoObj == [attrs |-> NoAttrs, sstate |-> "transient", db |-> NoAttrs, row |-> FALSE]
ClsObjs ==
    {[kind |-> "class", base |-> b, obj |-> NoObj] : b \in BOOLEAN}
        \cup {[kind |-> "instance", base |-> TRUE, obj |-> sc] : sc \in Scenarios}
        \cup {[kind |-> "instance", base |-> FALSE, obj |-> NoObj]}
SessionArgs == {"None", "Session", "other"}

\* isinstance(x, PQSFieldBinder), for the elements of a supplied list: a
\* binder is named by its attribute, anything else is another object.
IsBinder(x) == x \in Fields
AllBinders(l) == \A k \in 1..Len(l) : IsBinder(l[k])

\* Form descriptors: without widgets; with widgets that have no default
\* binder or whose derived name is no attribute of the model; with one
\* usable channel among such widgets; with a `binders` list of binders, in
\* an order of its own; with a `binders` list holding a QLabel.
EmptyForm == [UserForm EXCEPT !.channels = <<>>]
StrangeForm ==
    [UserForm EXCEPT !.channels = <<Chan("email", "Label", "QLabel"),
                                    Chan("phone", "LineEdit", "QLineEdit")>>]
MixedForm ==
    [UserForm EXCEPT !.channels = <<Chan("email", "Label", "QLabel"),
                                    Chan("number", "LineEdit", "QLineEdit"),
                                    Chan("phone", "LineEdit", "QLineEdit")>>]
ListedForm == [UserForm EXCEPT !.binders = List(<<"number", "email">>)]
MislistedForm == [UserForm EXCEPT !.binders = List(<<"email", "label">>)]
SetupForms ==
    {NoForm, EmptyForm, StrangeForm, MixedForm, UserForm, DatedForm, ListedForm,
     MislistedForm}

\* The lists a program may assign to the binders property.
SetupLists == {List(<<"number", "email">>), List(<<"email", "label">>)}

Construct ==
    /\ session = "unset"
    /\ \E c \in ClsObjs, se \in SessionArgs :
          Install(init(Cur, c, se), "init",
                  [b |-> "", v |-> NoneV, cls_obj |-> c, session |-> se])

BindSetup ==
    /\ session # "unset"
    /\ \E f \in SetupForms : BindForm(f)

Lookup ==
    /\ session # "unset"
    /\ Install(lookup_binders(Cur), "lookup_binders", NoArg)

SetBinders ==
    /\ session # "unset"
    /\ \E bs \in SetupLists :
          Install(set_binders(Cur, bs), "set_binders",
                  [b |-> "", v |-> NoneV, binders |-> bs])

\* What a program may pass as the model of a query: a class, or an object
\* that is not a class.
QueryModels == {c \in ClsObjs : c.obj = NoObj}

\* The program builds a table model of its own, to hand it to the query form.
ConstructTable ==
    /\ sessions.table = "unset" /\ sessions.ui = "unset"
    /\ \E c \in QueryModels, se \in {"None", "S", "other"} :
          Install(table_init(Cur, c, se), "table_init",
                  [b |-> "", v |-> NoneV, cls_obj |-> c, session |-> se])

\* The program builds the query form, with the default table model class
\* or with the table model it built.
ConstructQuery ==
    /\ sessions.ui = "unset"
    /\ \E c \in QueryModels, se \in {"None", "S", "other"},
          table_model \in {"class", "instance"} :
          /\ table_model = "instance" => sessions.table # "unset"
          /\ table_model = "class" => sessions.table = "unset"
          /\ Install(query_init(Cur, c, se, table_model), "query_init",
                     [b |-> "", v |-> NoneV, cls_obj |-> c, session |-> se,
                      table_model |-> table_model])

NextSetup ==
    Construct \/ BindSetup \/ Lookup \/ SetBinders \/ ConstructTable
        \/ ConstructQuery

SpecSetup == InitSetup /\ [][NextSetup]_vars

(* A program querying: query.py is imported, one operator class after the  *)
(* other; the program may define operator classes of its own; the user     *)
(* picks a column and an operator, types a value and asks for the rows,    *)
(* and sorts the table by a column.                                        *)

InitQuery ==
    /\ Fresh({NoObj})
    /\ listing = NoOperators.listing
    /\ map_by_name = NoOperators.map_by_name
    /\ session = "factory"
    /\ op = "none"

\* Operator classes a program may add: a new one, and one that bears the
\* name of a class of query.py.
FurtherOperators ==
    {[cls |-> "PQSOperatorBetween", operator |-> "between"],
     [cls |-> "PQSOperatorLike", operator |-> "contains"]}

\* What the user may type in the value field, what the database may answer,
\* and the columns the user may pick or sort by.
RawValues == {<<"a">>, <<"a", "%">>, <<"a", "_">>}
Answers ==
    {[ok |-> FALSE, rows |-> <<>>], [ok |-> TRUE, rows |-> <<>>],
     [ok |-> TRUE, rows |-> <<"row1", "row2">>]}
PickedColumns == {0, 3}

\* The next class statement: those of query.py first and in order, then
\* one of the program.
Register ==
    \E c \in {Builtins[k] : k \in 1..Len(Builtins)} \cup FurtherOperators :
        /\ IF Len(listing) < Len(Builtins)
              THEN c = Builtins[Len(listing) + 1]
              ELSE c \in FurtherOperators /\ Len(listing) = Len(Builtins)
        /\ Install(register(Cur, c), "register",
                   [b |-> "", v |-> NoneV, cls |-> c.cls])

DoQuery ==
    /\ Len(listing) >= Len(Builtins)
    /\ \E column_id \in PickedColumns, operator_id \in 0..(Len(listing) - 1),
          t \in RawValues, a \in Answers :
          Install(do_query(Cur, column_id, operator_id, t, a.ok, a.rows),
                  "do_query",
                  [b |-> "", v |-> NoneV, column_id |-> column_id,
                   operator_id |-> operator_id, value |-> t, answer |-> a])

Sort ==
    /\ Len(listing) >= Len(Builtins)
    /\ \E col \in PickedColumns, order \in {"AscendingOrder", "DescendingOrder"},
          a \in Answers :
          Install(table_sort(Cur, col, order, a.ok, a.rows), "sort",
                  [b |-> "", v |-> NoneV, col |-> col, order |-> order,
                   answer |-> a])

NextQuery == Register \/ DoQuery \/ Sort

SpecQuery == InitQuery /\ [][NextQuery]_vars

----------------------------------------------------------------------------

(* What the last handler did, read from its trace.                         *)

Called(e, b) == \E k \in 1..Len(log) : log[k] = [e |-> e, b |-> b]

Count(e, b) == Cardinality({k \in 1..Len(log) : log[k] = [e |-> e, b |-> b]})

IsUpdate(x) == x.e \in {"update_ok", "update_fail"}

\* The binders update() ran on, in the order of the calls.
RECURSIVE NamesOf(_)
NamesOf(q) == IF q = <<>> THEN <<>> ELSE <<Head(q).b>> \o NamesOf(Tail(q))

Updated == NamesOf(SelectSeq(log, IsUpdate))

IsToGui(x) == x.e = "to_gui"

Reloaded == NamesOf(SelectSeq(log, IsToGui))

SomeUpdateFailed == \E b \in BinderSet : Called("update_fail", b)

CommitFailed == Called("raise", "commit")

CommitSucceeded == Called("session", "commit") /\ ~CommitFailed

NowStatus == Status(sstate, modified)

\* The channel shows the model value.
Shows(b) == text[b] = gui_text(Cur, b, attrs[b])

----------------------------------------------------------------------------
(* The claims.                                                             *)

\* C1: no partial commit.  A save() started while the status is not Deleted
\* in which some binder's update() returns false calls neither session.add
\* nor session.commit and ends by raising PQSFormFieldsNotValidError.
C1_NoPartialCommit ==
    (op = "save" /\ pre # "Deleted" /\ SomeUpdateFailed) =>
        /\ ~Called("session", "add")
        /\ ~Called("session", "commit")
        /\ raised = "PQSFormFieldsNotValidError"

C1_Witness ==
    /\ op = "save" /\ pre = "PersistentClean"
    /\ Called("update_fail", "email") /\ Called("update_ok", "number")
    /\ raised = "PQSFormFieldsNotValidError"

\* C2: in a save() on a non-Deleted object update() runs on every binder, once
\* each and in binder-list order, whether or not an earlier one failed, and
\* every update() precedes the first session call.
C2_ValidateAllBeforeSession ==
    (op = "save" /\ pre # "Deleted") =>
        /\ Updated = Binders
        /\ \A i, j \in 1..Len(log) :
              (log[i].e = "session" /\ IsUpdate(log[j])) => j < i

C2_Witness ==
    /\ op = "save" /\ pre # "Deleted"
    /\ \E i, j \in 1..Len(log) :
          /\ i < j
          /\ log[i] = [e |-> "update_fail", b |-> "email"]
          /\ log[j].b = "number" /\ IsUpdate(log[j])

\* C3: after an Editor action returns, the visible action buttons are the
\* fixed function of the lifecycle status.
Available(status) ==
    CASE status \in {"Transient", "Pending"} -> {"save", "validate"}
      [] status \in {"PersistentClean", "PersistentDirty"} ->
            {"save", "validate", "refresh", "delete"}
      [] status = "Deleted" -> {"save", "validate", "refresh"}
      [] status = "Detached" -> {}

EditorActions == {"bind_form", "save", "commit", "validate", "refresh", "delete"}

C3_ActionsFollowStatus ==
    (op \in EditorActions /\ raised = "none") =>
        {n \in ButtonNames : buttons[n]} = Available(NowStatus)

C3_Witness ==
    /\ op = "delete" /\ raised = "none" /\ NowStatus = "Deleted"
    /\ {n \in ButtonNames : buttons[n]} = {"save", "validate", "refresh"}

\* C4: a save() on a Transient object in which every update() succeeds and
\* the commit succeeds returns without error and leaves PersistentClean.
C4_AddValid ==
    (op = "save" /\ pre = "Transient" /\ ~SomeUpdateFailed /\ CommitSucceeded) =>
        (raised = "none" /\ NowStatus = "PersistentClean")

C4_Witness ==
    /\ op = "save" /\ pre = "Transient" /\ ~SomeUpdateFailed /\ CommitSucceeded
    /\ Updated = Binders
    /\ NowStatus = "PersistentClean"

\* C5: a save() on a Transient object in which a field is rejected fails,
\* leaves that field marked invalid and the status Transient, and attempts
\* no commit.
C5_AddInvalid ==
    \A b \in BinderSet :
        (op = "save" /\ pre = "Transient" /\ Called("update_fail", b)) =>
            /\ raised = "PQSFormFieldsNotValidError"
            /\ style[b] = "invalid"
            /\ NowStatus = "Transient"
            /\ ~Called("session", "commit")

C5_Witness ==
    /\ op = "save" /\ pre = "Transient"
    /\ text["email"] = "not-an-email" /\ Called("update_fail", "email")
    /\ style["email"] = "invalid"

\* C6: during and after a save() on a never-saved (Transient) object every
\* status observed is Transient, Pending or PersistentClean.
C6_Monotone ==
    (op = "save" /\ pre = "Transient") =>
        /\ NowStatus \in {"Transient", "Pending", "PersistentClean"}
        /\ \A k \in 1..Len(log) :
              log[k].e = "status" =>
                  log[k].b \in {"transient", "pending", "persistent",
                                "persistent_unmodified"}

C6_Witness ==
    /\ op = "save" /\ pre = "Transient" /\ CommitFailed
    /\ Called("session", "rollback")
    /\ NowStatus = "Transient"

\* C7: save() in status Deleted is a deletion commit: no update(), no
\* session.add, exactly one session.commit.
C7_DeleteMode ==
    (op = "save" /\ pre = "Deleted") =>
        /\ Updated = <<>>
        /\ ~Called("session", "add")
        /\ Count("session", "commit") = 1

C7_Witness ==
    /\ op = "save" /\ pre = "Deleted" /\ NowStatus = "Detached"
    /\ Count("session", "commit") = 1

\* C8: when the session's commit fails, commit() rolls back and its caller
\* gets a storage error.
C8_StorageErrorSurfaced ==
    (op \in {"save", "commit"} /\ CommitFailed) =>
        (Called("session", "rollback") /\ raised = "SQLAlchemyError")

\* C9: after a successful session commit, commit() calls update_to_gui() on
\* every binder in order and no update(), then recomputes the status; every
\* channel shows its model value and is marked not-validated.  After a
\* failed session commit no field is reloaded.
AfterCommit ==
    LET c == CHOOSE k \in 1..Len(log) : log[k] = [e |-> "session", b |-> "commit"]
    IN  SubSeq(log, c + 1, Len(log))

C9_ReloadAfterCommit ==
    /\ (op \in {"save", "commit"} /\ CommitSucceeded) =>
          /\ NamesOf(SelectSeq(AfterCommit, IsToGui)) = Binders
          /\ SelectSeq(AfterCommit, IsUpdate) = <<>>
          /\ \A i, j \in 1..Len(AfterCommit) :
                (AfterCommit[i].e = "status" /\ IsToGui(AfterCommit[j])) => j < i
          /\ \E i \in 1..Len(AfterCommit) : AfterCommit[i].e = "status"
          /\ \A b \in BinderSet : Shows(b) /\ style[b] = "not_validated"
    /\ (op \in {"save", "commit"} /\ CommitFailed) => Reloaded = <<>>

C9_Witness ==
    /\ op = "save" /\ pre = "Pending" /\ CommitSucceeded
    /\ text["id"] = "1" /\ text["email"] = "x@y.com"
    /\ \A b \in BinderSet : style[b] = "not_validated"

IsSession(x) == x.e = "session"

\* The session methods the last handler called, in the order of the calls.
SessionCalls == NamesOf(SelectSeq(log, IsSession))

\* C11: validate() does not touch the session: whatever the lifecycle status,
\* a call to validate() invokes none of the session's add, commit, rollback,
\* refresh, delete or flush.
C11_ValidateNoSession == op = "validate" => SessionCalls = <<>>

C11_Witness ==
    /\ op = "validate" /\ pre = "PersistentClean"
    /\ Updated = Binders
    /\ NowStatus = "PersistentDirty"

C13_RefreshUndoesDelete ==
    /\ (op = "refresh" /\ pre = "Deleted") =>
          /\ SessionCalls = <<"rollback", "refresh">>
          /\ raised = "none"
          /\ ~marked
          /\ NowStatus = "PersistentClean"
    /\ (op = "refresh" /\ pre # "Deleted") => ~Called("session", "rollback")

C13_Witness ==
    /\ op = "refresh" /\ pre = "Deleted"
    /\ SessionCalls = <<"rollback", "refresh">>
    /\ NowStatus = "PersistentClean"
    /\ buttons["delete"]

\* C14: a PersistentClean object, a user edit of a channel to a value the
\* validator rejects (autoupdate runs update(), which fails, and reset() is
\* attempted), then refresh(): every channel shows the stored value again,
\* every field is marked not-validated and the status is PersistentClean.
C14_EditThenRefresh ==
    (op = "refresh" /\ after_bad_edit) =>
        /\ raised = "none"
        /\ \A b \in BinderSet :
              /\ text[b] = gui_text(Cur, b, db[b])
              /\ style[b] = "not_validated"
        /\ NowStatus = "PersistentClean"

C14_Witness ==
    /\ op = "refresh" /\ after_bad_edit
    /\ db["email"] = StrV("a@b.com") /\ text["email"] = "a@b.com"
    /\ style["email"] = "not_validated"
    /\ NowStatus = "PersistentClean"

\* The status handlers update_status() dispatches to first.
TopStatus == {"transient", "pending", "persistent", "deleted", "detached"}

\* How many times the last handler ran update_status().
StatusRuns ==
    Cardinality({k \in 1..Len(log) : log[k].e = "status" /\ log[k].b \in TopStatus})

\* The value update() works on: the value passed, or the channel's value
\* when none (None) is passed.
Effective == IF arg.v = NoneV THEN gui_value(Cur, arg.b) ELSE arg.v

\* C15: update(value) returns true exactly when the validator accepts the
\* value (the channel's value when the value is omitted); on true the
\* attribute holds the validated value, the field is marked valid and
\* on_valid(value) is the one hook invoked, on false the field is marked
\* invalid and on_invalid(value, error) is the one hook invoked; no exception
\* escapes, and update_status() runs exactly once, after the attempt.
C15_UpdateProtocol ==
    op = "update" =>
        LET b == arg.b
            r == Validator(b, Effective)
        IN  /\ ret = r.ok
            /\ raised = "none"
            /\ r.ok => attrs[b] = r.v /\ style[b] = "valid"
            /\ ~r.ok => style[b] = "invalid"
            /\ hooks = <<[h |-> IF r.ok THEN "on_valid" ELSE "on_invalid",
                          b |-> b, v |-> Effective]>>
            /\ StatusRuns = 1
            /\ IsUpdate(log[1]) /\ \A k \in 2..Len(log) : log[k].e = "status"

C15_Witness ==
    /\ op = "update" /\ arg = [b |-> "email", v |-> NoneV]
    /\ text["email"] = "not-an-email"
    /\ ~ret /\ style["email"] = "invalid"
    /\ hooks = <<[h |-> "on_invalid", b |-> "email", v |-> StrV("not-an-email")]>>

\* The binders whose attribute validator accepts None.
AcceptsNull(b) == Validator(b, NoneV).ok

\* reset() ran on binder b in the last handler.
ResetRan(b) == Called("on_reset", b)

\* C16: for a binder whose validator accepts None, update(reset_value), and
\* so reset(), sets the attribute to None and leaves the field marked valid,
\* whatever the channel holds.
C16_ResetSetsNull ==
    \A b \in BinderSet :
        (/\ AcceptsNull(b)
         /\ \/ (op = "update" /\ arg = [b |-> b, v |-> reset_value])
            \/ ResetRan(b)) =>
            (attrs[b] = reset_value /\ style[b] = "valid")

\* C17: when the validator rejects None (a mandatory field), reset() reports
\* on_reset_fail and not on_reset_success, then on_reset, does not raise, and
\* the field remains marked invalid.
C17_ResetFailReported ==
    \A b \in BinderSet :
        (ResetRan(b) /\ ~AcceptsNull(b)) =>
            /\ Called("on_reset_fail", b)
            /\ ~Called("on_reset_success", b)
            /\ log[Len(log)] = [e |-> "on_reset", b |-> b]
            /\ raised = "none"
            /\ style[b] = "invalid"

\* The state of the binders, the domain object and the form.
objects ==
    <<attrs, db, row, sstate, modified, marked, text, date, readOnly, style,
      autoupdate, disabled, connected, connected_save, buttons, label>>

\* C18: a binder whose disabled flag is true at construction keeps the flag;
\* enable(), disable(), enable_edit(), disable_edit(), enable_autoupdate()
\* and disable_autoupdate() on it change nothing; its change and submit
\* notifications are never connected, connect_autoupdate() and
\* connect_save() included; update_from_gui() on it writes nothing.
C18_DisabledFrozen ==
    [][\A b \in BinderSet :
          /\ (bound' /\ disabled'[b]) => (~connected'[b] /\ ~connected_save'[b])
          /\ (bound /\ disabled[b]) =>
                /\ disabled'[b]
                /\ (/\ op' \in ToggleNames \cup ConnectNames \cup {"update_from_gui"}
                    /\ arg'.b = b) => (UNCHANGED objects /\ log' = <<>>)]_vars

C18_Witness ==
    /\ op = "update_from_gui" /\ arg.b = "id"
    /\ disabled["id"] /\ ~connected["id"] /\ ~connected_save["id"]
    /\ attrs["id"] = IntV(7) /\ text["id"] = DISABLED_MESSAGE
    /\ log = <<>>

\* C19: on a binder that is not permanently disabled, after disable() the
\* channel is read-only and autoupdate is off, after enable() the channel is
\* editable and autoupdate is on, whatever calls came before.
C19_TogglePaired ==
    \A b \in BinderSet :
        (bound /\ ~disabled[b] /\ arg.b = b) =>
            /\ op = "disable" => (readOnly[b] /\ ~autoupdate[b])
            /\ op = "enable" => (~readOnly[b] /\ autoupdate[b])

C19_Witness ==
    /\ op = "disable" /\ arg.b = "number" /\ ~disabled["number"]
    /\ readOnly["number"] /\ ~autoupdate["number"]

\* C20 as stated: the binder's update_to_gui() runs no update() of the
\* binder and leaves the field marked not-validated.
C20_PushWithoutValidating ==
    op = "update_to_gui" =>
        (Updated = <<>> /\ style[arg.b] = "not_validated")

\* C20 amended: the binder's update_to_gui() writes the rendering of the
\* model value into the channel.  When the change notification is not
\* connected, autoupdate is off or the text written is the text shown, no
\* update() runs, the domain object is not written and the field's mark is
\* left as it was; when the notification is connected, autoupdate is on and
\* the text changes, update() runs on the binder.
C20_PushMayValidate ==
    [][(op' = "update_to_gui" /\ Kind(arg'.b) = "QLineEdit") =>
          LET b == arg'.b
              fires == connected[b] /\ autoupdate[b] /\ text'[b] # text[b]
          IN  /\ text'[b] = gui_text(Cur, b, attrs[b])
              /\ ~fires =>
                    /\ \A k \in 1..Len(log') : ~IsUpdate(log'[k])
                    /\ UNCHANGED <<attrs, modified, style>>
              /\ fires =>
                    \E k \in 1..Len(log') : IsUpdate(log'[k]) /\ log'[k].b = b]_vars

C20_Witness ==
    /\ op = "update_to_gui" /\ arg.b = "number"
    /\ ~autoupdate["number"]
    /\ attrs["number"] = IntV(5) /\ text["number"] = "5"
    /\ style["number"] = "invalid"
    /\ Updated = <<>>

\* C21: round trip.  For every binder, text-field and date-field, and every
\* value v its attribute holds, None included, update_to_gui() followed at
\* once by update() leaves the attribute equal to v.
C21_RoundTrip ==
    [][(/\ op = "update_to_gui"
        /\ op' = "update" /\ arg' = [b |-> arg.b, v |-> NoneV]) =>
           attrs'[arg.b] = was[arg.b]]_vars

----------------------------------------------------------------------------
(* Setting the editor up: the constructor, bind_form(), lookup_binders()   *)
(* and the binders property.                                               *)

\* The call is a lookup: bind_form() on a form with a setupUi, or
\* lookup_binders() itself.
LooksUp == (op' = "bind_form" /\ form'.setupUi) \/ op' = "lookup_binders"

\* C22: when the form descriptor supplies an explicit list of binders, all
\* of them PQSFieldBinder objects, the lookup ends without error and the
\* editor's binders are exactly that list, in that order.
C22_ExplicitListUsed ==
    [][(/\ LooksUp /\ ~binders.some
        /\ form'.binders.some /\ AllBinders(form'.binders.list)) =>
           (raised' = "none" /\ binders' = form'.binders)]_vars

\* C23: when the explicit list of the form descriptor, or the list assigned
\* to the binders property, holds an element that is not a PQSFieldBinder,
\* the call ends with PQSBindersNotValidError.
C23_InvalidListRefused ==
    [][(/\ ~binders.some
        /\ \/ LooksUp /\ form'.binders.some /\ ~AllBinders(form'.binders.list)
           \/ op' = "set_binders" /\ ~AllBinders(arg'.binders.list)) =>
           raised' = "PQSBindersNotValidError"]_vars

\* The channels of a form that get a default binder.
Resolvable(f) ==
    {k \in 1..Len(f.channels) :
        /\ f.channels[k].cls \in GUI_BINDERS
        /\ name_exists(NamePart(f.channels[k].attr, field_suffix(f.channels[k].cls)))}

\* C24: when binders are not set, the form has no explicit list and none of
\* its widgets gets a default binder, the lookup ends with
\* PQSBindersNotFoundError, and bind_form() attaches no events, constructs
\* no binder and updates nothing.
C24_NoBindersIsFatal ==
    [][(/\ LooksUp /\ ~binders.some
        /\ ~form'.binders.some /\ Resolvable(form') = {}) =>
           (raised' = "PQSBindersNotFoundError" /\ ~bound' /\ log' = <<>>)]_vars

C24_Witness ==
    /\ op = "bind_form" /\ form = StrangeForm
    /\ raised = "PQSBindersNotFoundError" /\ ~bound

\* C25: once binders are set, lookup_binders() and an assignment to the
\* binders property leave the list as it is, construct no binder, do
\* nothing else and raise nothing.
C25_ResolvedOnce ==
    [][(binders.some /\ op' \in {"lookup_binders", "set_binders"}) =>
           (binders' = binders /\ log' = <<>> /\ raised' = "none")]_vars

C25_Witness ==
    /\ op = "lookup_binders" /\ raised = "none" /\ bound
    /\ binders = List(<<"email", "id", "number">>)

----------------------------------------------------------------------------
(* Querying: the operator register, generate_query() and refresh().        *)

\* No later class of the list bears the name of the k-th.
LastOfName(k) ==
    \A j \in (k + 1)..Len(listing) : listing[j].cls # listing[k].cls

\* C27: every registered operator's id is its position in the list, counted
\* from 0, so the ids are 0..n-1 and no two operators share one; the map
\* holds, under each class name of the list, the class registered under it
\* (the last one, should a name be used twice), which is every class of
\* the list when the names differ; and registering an operator leaves the
\* operators registered before, their ids included, as they were.
C27_PositionalIds ==
    /\ [](/\ \A k \in 1..Len(listing) : listing[k].id = k - 1
          /\ \A j, k \in 1..Len(listing) :
                 j # k => listing[j].id # listing[k].id
          /\ DOMAIN map_by_name = {listing[k].cls : k \in 1..Len(listing)}
          /\ \A k \in 1..Len(listing) :
                 LastOfName(k) => map_by_name[listing[k].cls] = listing[k])
    /\ [][op' = "register" =>
              /\ Len(listing') = Len(listing) + 1
              /\ \A k \in 1..Len(listing) : listing'[k] = listing[k]]_vars

C27_Witness ==
    /\ op = "register" /\ Len(listing) = Len(Builtins) + 1
    /\ listing[Len(listing)].cls = "PQSOperatorBetween"
    /\ listing[Len(listing)].id = Len(Builtins)
    /\ \A k \in 1..Len(listing) : LastOfName(k)

\* The ids generate_query() compares the combobox index with.
LikeIds == {ClassId(Cur, "PQSOperatorLike"), ClassId(Cur, "PQSOperatorILike")}
NullIds == {ClassId(Cur, "PQSOperatorIsNull"), ClassId(Cur, "PQSOperatorIsNotNull")}

\* C28: with is-null or is-not-null selected, the query generated calls
\* the column method with None, whatever the text of the value field: the
\* same query for every text, with the same column selected.
C28_NullIgnoresValue ==
    (op = "do_query" /\ arg.operator_id \in NullIds) =>
        /\ query = Filter(Columns[arg.column_id + 1],
                          listing[arg.operator_id + 1].operator, TRUE, <<>>, "")
        /\ \A t \in RawValues :
               generate_query(Cur, arg.column_id, arg.operator_id, t) = query

C28_Witness ==
    /\ op = "do_query" /\ arg.operator_id = ClassId(Cur, "PQSOperatorIsNull")
    /\ Columns[arg.column_id + 1] = "birthdate" /\ arg.value = <<"a", "%">>
    /\ query.operator = "is_" /\ query.none

\* C29: with like or ilike selected, the value handed to the column method
\* is the text wrapped in "%" when the text holds no "%", and the text
\* itself when it holds one; with any other operator that takes a value,
\* it is the text itself.
C29_LikeWraps ==
    op = "do_query" =>
        LET t == arg.value
        IN  /\ arg.operator_id \in LikeIds =>
                   /\ ~query.none
                   /\ query.value = (IF HasWildcard(t) THEN t
                                     ELSE <<"%">> \o t \o <<"%">>)
            /\ arg.operator_id \notin (LikeIds \cup NullIds) =>
                   (~query.none /\ query.value = t)

C29_Witness ==
    /\ op = "do_query" /\ arg.operator_id = ClassId(Cur, "PQSOperatorILike")
    /\ arg.value = <<"a", "_">> /\ query.value = <<"%", "a", "_", "%">>

\* The positions of an event in a trace.
Places(l, e, b) == {k \in 1..Len(l) : l[k] = [e |-> e, b |-> b]}

\* C30: a refresh with a query set emits layoutAboutToBeChanged first and
\* once, issues the query once, and emits layoutChanged last and once,
\* whether the query succeeds or fails; on success the rows held are
\* replaced by the rows returned, after the query and before
\* layoutChanged; on failure the rows held stay as they were.  Without a
\* query nothing is emitted and nothing changes.
C30_RefreshBracketed ==
    [][op' \in {"do_query", "sort"} =>
          LET l == log'
              n == Len(l)
              a == arg'.answer
          IN  IF query'.set
              THEN /\ Places(l, "signal", "layoutAboutToBeChanged") = {1}
                   /\ Places(l, "signal", "layoutChanged") = {n}
                   /\ Places(l, "query", "all") = {2}
                   /\ n > 2
                   /\ IF a.ok
                      THEN /\ results' = List(a.rows)
                           /\ Places(l, "results", "set") = {3}
                           /\ n > 3
                      ELSE /\ results' = results
                           /\ Places(l, "results", "set") = {}
              ELSE l = <<>> /\ results' = results]_vars

C30_Witness ==
    /\ op = "do_query" /\ ~arg.answer.ok
    /\ results = List(<<"row1", "row2">>)
    /\ log[1].b = "layoutAboutToBeChanged" /\ log[Len(log)].b = "layoutChanged"

\* C31: a query form constructed with a Session S holds S, and so does its
\* table model; a table model constructed with S holds S; given an object
\* that is neither None nor a Session, the constructors end with
\* PQSSessionNotValidError; a session is made by the factory only when
\* None is given.
C31_OneSession ==
    (/\ op \in {"query_init", "table_init"}
     /\ arg.cls_obj.kind = "class" /\ arg.cls_obj.base) =>
        /\ arg.session = "S" =>
               /\ raised = "none"
               /\ op = "query_init" => sessions.ui = "S"
               /\ (op = "table_init" \/ arg.table_model = "class") =>
                      sessions.table = "S"
        /\ arg.session = "other" => raised = "PQSSessionNotValidError"
        /\ arg.session = "None" => raised = "none"

----------------------------------------------------------------------------
(* The editor again: status, detachment, binding.                          *)

\* The status text each of the six states gives.
LabelOf(st) ==
    CASE st = "Transient" -> <<"Transient">>
      [] st = "Pending" -> <<"Pending">>
      [] st = "PersistentClean" -> <<"Persistent", "no new changes">>
      [] st = "PersistentDirty" -> <<"Persistent", "changes pending">>
      [] st = "Deleted" -> <<"Deleted">>
      [] st = "Detached" -> <<"Detached">>

SubStatus == {"persistent_modified", "persistent_unmodified"}

IsStatus(k, set) == log[k].e = "status" /\ log[k].b \in set

\* C32: every status recomputation of a handler runs one top-level status
\* handler, followed at once by one of the two sub-handlers exactly when
\* the object is persistent, and no sub-handler runs otherwise; when a
\* handler that recomputed the status ends, the status text is the text of
\* the one state the object is in.
C32_OneStatus ==
    /\ \A k \in 1..Len(log) :
          /\ IsStatus(k, TopStatus) =>
                 (log[k].b = "persistent" <=>
                     (k < Len(log) /\ IsStatus(k + 1, SubStatus)))
          /\ IsStatus(k, SubStatus) =>
                 (k > 1 /\ IsStatus(k - 1, {"persistent"}))
    /\ StatusRuns > 0 => label = LabelOf(Status(sstate, modified))

C32_Witness ==
    /\ op = "edit" /\ StatusRuns = 1
    /\ Status(sstate, modified) = "PersistentDirty"
    /\ label = <<"Persistent", "changes pending">>

\* C33: when save() is called on a Deleted object and the commit succeeds,
\* the status is Detached when save() returns, and every binder that is
\* not permanently disabled has its channel read-only and its autoupdate
\* off.
C33_DetachedDisablesBinders ==
    (/\ op = "save" /\ pre = "Deleted"
     /\ Called("session", "commit") /\ ~Called("session", "rollback")) =>
        /\ Status(sstate, modified) = "Detached"
        /\ \A b \in Fields :
               (InList(b) /\ ~disabled[b]) => (readOnly[b] /\ ~autoupdate[b])

C33_Witness ==
    /\ op = "save" /\ pre = "Deleted" /\ sstate = "detached"
    /\ style["email"] = "not_validated"
    /\ readOnly["email"] /\ ~autoupdate["email"] /\ ~disabled["email"]

\* The names derived from the channels of a form that are of a recognised
\* class and named after an attribute of the object, in the form's order.
IsResolvable(c) ==
    /\ c.cls \in GUI_BINDERS
    /\ name_exists(NamePart(c.attr, field_suffix(c.cls)))
ResolvedNames(f) ==
    LET sel == SelectSeq(f.channels, IsResolvable)
    IN  [i \in 1..Len(sel) |-> NamePart(sel[i].attr, field_suffix(sel[i].cls))[1]]

\* C34: when binders are not set and the form has no explicit list, a
\* lookup on a form with at least one channel of a recognised class whose
\* derived name is an attribute of the object ends without error; the
\* binders are then one per such channel, under the derived name and in
\* the form's order, each constructed once, and no other channel gets one.
C34_InferredBinders ==
    [][(/\ LooksUp /\ ~binders.some
        /\ ~form'.binders.some /\ Resolvable(form') # {}) =>
           /\ raised' = "none"
           /\ binders' = List(ResolvedNames(form'))
           /\ \A b \in Fields \cup {"phone"} :
                  Cardinality(Places(log', "binder_init", b)) =
                      Cardinality({i \in 1..Len(binders'.list) :
                                      binders'.list[i] = b})]_vars

C34_Witness ==
    /\ op = "bind_form" /\ form = MixedForm /\ bound
    /\ binders = List(<<"number">>) /\ raised = "none"

\* C35: sort(column, order) records the column and the order and refreshes
\* once: with a query set, the stored query is handed to the database once,
\* ordered by that column, descending exactly when DescendingOrder is
\* asked for, and limited to the row limit; the stored query is not
\* changed and the rows held are the rows the database returned, or the
\* rows held before if the query failed; with no query set nothing but the
\* sort settings changes.
C35_SortReissues ==
    [][op' = "sort" =>
          /\ sorting' = [column |-> arg'.col, order |-> arg'.order]
          /\ query' = query
          /\ IF query.set
             THEN /\ Cardinality(Places(log', "query", "all")) = 1
                  /\ issued' = [set |-> TRUE, query |-> query,
                                order_by |-> Columns[arg'.col + 1],
                                desc |-> (arg'.order = "DescendingOrder"),
                                limit |-> DEFAULT_LIMIT]
                  /\ results' = (IF arg'.answer.ok THEN List(arg'.answer.rows)
                                 ELSE results)
             ELSE log' = <<>> /\ issued' = issued /\ results' = results]_vars

C35_Witness ==
    /\ op = "sort" /\ arg.col = 3 /\ arg.order = "DescendingOrder"
    /\ issued.set /\ issued.order_by = "birthdate" /\ issued.desc
    /\ issued.query = query /\ arg.answer.ok
    /\ results = List(<<"row1", "row2">>)

\* The handlers in which the editor pushes the model values into the
\* channels, and the trace entries of a write or a reset of the object.
Pushing == {"bind_form", "commit", "refresh", "validate"}

IsReset(x) == x.e \in {"on_reset", "on_reset_success", "on_reset_fail"}

UpdatesOf(l, b) == {k \in 1..Len(l) : IsUpdate(l[k]) /\ l[k].b = b}

\* C36: a change of a channel by the user validates, writes or resets the
\* object only if the binder's signal is connected, its autoupdate is on
\* and it is not disabled; while the editor pushes the model values into
\* the channels (bind_form, commit, refresh, validate) the channel writes
\* start no update_from_gui(): nothing is reset and no binder is validated
\* more than the once the handler itself asks for.
C36_NotificationGated ==
    [][/\ (op' = "edit" /\ (attrs' # attrs \/ log' # <<>>)) =>
              /\ connected[arg'.b] /\ autoupdate[arg'.b] /\ ~disabled[arg'.b]
              /\ \A k \in 1..Len(log') :
                    IsUpdate(log'[k]) \/ IsReset(log'[k]) => log'[k].b = arg'.b
       /\ op' \in Pushing =>
              /\ \A k \in 1..Len(log') : ~IsReset(log'[k])
              /\ \A b \in Fields : Cardinality(UpdatesOf(log', b)) <= 1]_vars

\* validate() right after a rejected edit: the channel still showed the
\* rejected text, the push replaced it, and the binder was validated once.
C36_Witness ==
    /\ op = "validate" /\ after_bad_edit
    /\ connected["email"] /\ autoupdate["email"] /\ ~disabled["email"]
    /\ Called("to_gui", "email")
    /\ text["email"] = "a@b.com"
    /\ Cardinality(UpdatesOf(log, "email")) = 1

\* The events a user can still raise on a detached editor: Return in a
\* channel whose submit signal is connected to save(), and a change of a
\* channel whose change signal is connected.
Wired ==
    \/ op = "save" /\ \E b \in Fields : connected_save[b]
    \/ op = "edit" /\ connected[arg.b]

\* C37: once the status is Detached, an event still wired to the editor
\* calls neither Session.add() nor Session.commit() and writes no attribute
\* of the object.
C37_DetachedInert ==
    (pre = "Detached" /\ Wired) =>
        /\ ~Called("session", "add")
        /\ ~Called("session", "commit")
        /\ \A k \in 1..Len(log) : log[k].e # "update_ok"
        /\ attrs = was

\* C38: when update(value) returns False every attribute of the object
\* holds the value it had before the call; and whatever a binder is asked
\* to do, an attribute differs from its value before the call only if an
\* update of that attribute was accepted during the call.
C38_RejectedLeavesObject ==
    /\ (op = "update" /\ ~ret) =>
           /\ attrs = was
           /\ Called("update_fail", arg.b) /\ ~Called("update_ok", arg.b)
    /\ \A b \in Fields : attrs[b] # was[b] => Called("update_ok", b)

C38_Witness ==
    /\ op = "update" /\ ~ret
    /\ arg.b = "email" /\ arg.v = StrV("not-an-email")
    /\ attrs["email"] = StrV("a@b.com") /\ attrs = was
    /\ style["email"] = "invalid"

\* C39: when bind_form() returns for an object that was PersistentClean,
\* no attribute of the object has changed, no binder's update() has run,
\* the status is still PersistentClean and every binder's field is marked
\* not-validated, whether or not the stored values pass their validators;
\* for an object in another status every binder's update() has run once.
C39_BindCleanReadsOnly ==
    (op = "bind_form" /\ raised = "none") =>
        IF pre = "PersistentClean"
        THEN /\ attrs = was
             /\ \A k \in 1..Len(log) : ~IsUpdate(log[k])
             /\ NowStatus = "PersistentClean"
             /\ \A b \in Fields : InList(b) => style[b] = "not_validated"
        ELSE \A b \in Fields :
                 InList(b) => Cardinality(UpdatesOf(log, b)) = 1

\* The object whose stored email fails its validator, bound and shown.
C39_Witness ==
    /\ op = "bind_form" /\ raised = "none" /\ pre = "PersistentClean"
    /\ attrs = WrongUser /\ InList("email")
    /\ text["email"] = "not-an-email"
    /\ style["email"] = "not_validated"

\* C40: when a lookup ends with PQSBindersNotFoundError the binders are
\* still unset, and a lookup_binders() called right after it, on the same
\* form, ends with PQSBindersNotFoundError again.
C40_FailedLookupRetries ==
    [][/\ (LooksUp /\ raised' = "PQSBindersNotFoundError") => ~binders'.some
       /\ (raised = "PQSBindersNotFoundError" /\ op' = "lookup_binders") =>
              raised' = "PQSBindersNotFoundError"]_vars

====
